---- MODULE Spec2Model ----
(***************************************************************************)
(* Model of the news ingestion pipeline (prepare_db.py), of the Pinecone   *)
(* store wrapper (src/db/pinecone.py), of the semantic search route        *)
(* (src/api/v1/routes.py), of the file provider (src/data_providers/file)  *)
(* and of CrawlingHelper.fetch_and_process_page (web_crawler.py).          *)
(*                                                                         *)
(* One behaviour is one run of one entry point: fill_db_web, fill_db_file, *)
(* one search request, the calls of fetch_and_process_page that share one  *)
(* processed_ids set, or one FileParser.parse over one file.               *)
(* Items pulled from the article source are                                *)
(* identified by their position in the pull history; an upsert record is   *)
(* identified by the position of the item it was built from.               *)
(***************************************************************************)
EXTENDS Integers, Sequences, FiniteSets, TLC

\* ------------------------------------------------------------------ bounds
\* Longest source sequence explored (items the source yields before it ends).
MaxPulls == 11
\* Largest ITEMS_LIMIT setting explored (the setting is any integer).
MaxItemsLimit == 2
\* Largest top_k a client sends (the route accepts 1..10).
MaxTopK == 11
\* Longest list of matches the store answers with.
MaxMatches == 2
\* Most items one page extraction holds.
MaxExtracted == 3
\* Most calls of fetch_and_process_page sharing one processed_ids set.
MaxCalls == 2
\* Longest file read by the parser, in bytes.
MaxFileLen == 5
\* Largest chunk_size of the FileReader explored (the default is 1024).
MaxChunk == 3

\* ------------------------------------------------------- program constants
chunk_size == 10
max_fails_in_a_row == 3
ReadyAttempts == 10
DefaultItemsLimit == 5
TopKMin == 1
TopKMax == 10

Programs == {"fill_db_web", "fill_db_file", "search", "crawl", "parse"}
ItemsLimits == ((0 - 1)..MaxItemsLimit) \cup {DefaultItemsLimit}

\* The settings explored: every cap when the run is limited; ITEMS_LIMIT is
\* not read when IS_LIMITED is false, nor by fill_db_file or the search route,
\* which run under the defaults (IS_LIMITED true, ITEMS_LIMIT 5).
Settings(prog) ==
    IF prog = "fill_db_web"
    THEN { <<TRUE, n>> : n \in ItemsLimits } \cup { <<FALSE, DefaultItemsLimit>> }
    ELSE { <<TRUE, DefaultItemsLimit>> }

\* Search requests and store answers explored.
Queries == {"news", "ai"}
TopKs == 0..MaxTopK
MatchForms == {"object", "dict", "other"}
ResultShapes == {"object", "dict", "dict_no_matches", "other"}

VARIABLES
    program,          \* the entry point this run executes (DATA_PROVIDER)
    IS_LIMITED,       \* settings.base_config.IS_LIMITED
    ITEMS_LIMIT,      \* settings.base_config.ITEMS_LIMIT
    pc,               \* position of the run
    history,          \* items pulled so far: TRUE = present, FALSE = absent
    fails_in_a_row,   \* the failure counter of the pull loop
    embeddings_chunk, \* the in-memory batch (web variant)
    embedded,         \* ids passed to db.get_embeddings, in call order
    truncated,        \* ids dropped by the item-cap truncation
    upsert_calls,     \* argument of every db.upsert call, in call order
    upsert_data,      \* argument of the db.upsert call in progress
    ret,              \* where the db.upsert call in progress returns to
    polls,            \* describe_index calls made by the call in progress
    sleeps,           \* time.sleep(1) calls made by the call in progress
    index_upserts,    \* argument of every index.upsert call, in call order
    error,            \* the exception a PineconeDB method raised to its caller
    loop_end,         \* why the pull loop ended: exhausted, breaker or limit
    request,          \* the search request: query text and top_k
    query_calls,      \* arguments of every db.query call, in call order
    store_result,     \* what db.query returned to the route, if it returned
    response,         \* the answer to the search request
    records,          \* fill_db_file: kinds of the file lines decoded so far
    file_bytes,       \* FileParser: the bytes of the file
    reader_chunk_size, \* FileParser: FileReader.chunk_size
    decoder,          \* FileParser: "json" (JSONDecoder) or "none"
    read_pos,         \* FileParser: bytes the reader has handed over
    buffer,           \* FileParser: the buffer of parse
    yielded,          \* FileParser: the items parse has yielded, in order
    processed_ids,    \* CrawlingHelper: the caller's set of processed URLs
    crawl_call,       \* CrawlingHelper: the inputs of the last call
    crawl_result,     \* CrawlingHelper: what the last call returned
    crawl_calls       \* CrawlingHelper: number of calls made

vars == <<program, IS_LIMITED, ITEMS_LIMIT, pc, history, fails_in_a_row,
          embeddings_chunk, embedded, truncated, upsert_calls, upsert_data,
          ret, polls, sleeps, index_upserts, error, loop_end, request,
          query_calls, store_result, response, records, file_bytes,
          reader_chunk_size, decoder, read_pos, buffer, yielded,
          processed_ids, crawl_call, crawl_result, crawl_calls>>

config == <<program, IS_LIMITED, ITEMS_LIMIT>>
storeCall == <<upsert_data, ret, polls, sleeps>>
ingestion == <<history, fails_in_a_row, embeddings_chunk, embedded, truncated,
               upsert_calls, storeCall, index_upserts, loop_end>>
searching == <<request, query_calls, store_result, response>>
filing == <<records>>
parsing == <<file_bytes, reader_chunk_size, decoder, read_pos, buffer, yielded>>
crawling == <<processed_ids, crawl_call, crawl_result, crawl_calls>>

\* The sequences over S of length at most n.
RECURSIVE SeqsUpTo(_, _)
SeqsUpTo(S, n) ==
    IF n = 0 THEN { <<>> }
    ELSE SeqsUpTo(S, n - 1) \cup
         { Append(q, x) : q \in { r \in SeqsUpTo(S, n - 1) : Len(r) = n - 1 },
                          x \in S }

\* The bytes of a file: the newline, the digit one and a byte that occurs in
\* no UTF-8 text (0xFF).
Bytes == {"nl", "1", "ff"}
Files == SeqsUpTo(Bytes, MaxFileLen)
ChunkSizes == 1..MaxChunk
\* FileParser is built with a JSONDecoder or with no decoder.
Decoders == {"json", "none"}

NoError == [op |-> "none", kind |-> "none", cause |-> "none"]

\* ----------------------------------------------------------------- helpers
Min(a, b) == IF a <= b THEN a ELSE b
Max(a, b) == IF a >= b THEN a ELSE b

\* Python's s[:n]: the first n elements, or all but the last -n when n < 0.
Truncate(s, n) ==
    IF n >= 0 THEN SubSeq(s, 1, Min(n, Len(s)))
    ELSE SubSeq(s, 1, Max(Len(s) + n, 0))

\* Variants of the guards below with the comparison off by one.
LimitReachedStrict(chunk) == IS_LIMITED /\ Len(chunk) > ITEMS_LIMIT
ChunkFullStrict(chunk) == ~IS_LIMITED /\ Len(chunk) > chunk_size
BreakerTripsStrict(fails) == fails > max_fails_in_a_row

\* The two guards of the web loop after an append (prepare_db.py:90, 95).
LimitReached(chunk) == IS_LIMITED /\ Len(chunk) >= ITEMS_LIMIT
ChunkFull(chunk) == ~IS_LIMITED /\ Len(chunk) >= chunk_size

\* The failure circuit-breaker's test (prepare_db.py:73, 119).
BreakerTrips(fails) == fails >= max_fails_in_a_row

\* The counter after a present item: fill_db_web resets it (prepare_db.py:80),
\* fill_db_file has no reset.
WebFailsAfterPresent(fails) == 0
FileFailsAfterPresent(fails) == fails

\* Variant of AfterUpsert that forgets to clear the batch.
AfterUpsertKeeps(back, chunk) == chunk

\* The web loop's batch once db.upsert has returned: cleared inside the loop
\* (prepare_db.py:98), left as it is after the final flush.
AfterUpsert(back, chunk) == IF back = "loop" THEN <<>> ELSE chunk

\* Entering db.upsert(batch) from the pipeline: one call, recorded.
CallUpsert(batch, back) ==
    /\ upsert_calls' = Append(upsert_calls, batch)
    /\ upsert_data' = batch
    /\ ret' = back
    /\ polls' = 0
    /\ sleeps' = 0
    /\ pc' = "poll"

\* Variant of Abort in which the pipeline swallows the exception and pulls on.
AbortSwallowed(op, kind, cause) ==
    /\ pc' = IF program = "search" THEN "responded" ELSE "loop"
    /\ error' = [op |-> op, kind |-> kind, cause |-> cause]

\* An exception leaving the run: nothing catches it in prepare_db.py.
Abort(op, kind, cause) ==
    /\ pc' = "aborted"
    /\ error' = [op |-> op, kind |-> kind, cause |-> cause]

NoResult == [shape |-> "none", iterable |-> TRUE, matches |-> <<>>]
\* fetch_and_process_page returns an item, identified by its position in the
\* page's extraction (1..), or None.
Null == 0
NoCall == [url |-> "none", seen |-> FALSE, success |-> FALSE, extracted |-> <<>>]
NoRequest == [query |-> "none", top_k |-> 0]
NoResponse == [status |-> 0, articles |-> <<>>, errors |-> <<>>, detail |-> "none"]

\* -------------------------------------------------------------------- Init
Init ==
    /\ program \in Programs
    /\ \E st \in Settings(program) : IS_LIMITED = st[1] /\ ITEMS_LIMIT = st[2]
    /\ pc = CASE program = "search" -> "request"
              [] program = "crawl" -> "crawl"
              [] program = "parse" -> "read"
              [] OTHER -> "loop"
    /\ history = <<>>
    /\ fails_in_a_row = 0
    /\ embeddings_chunk = <<>>
    /\ embedded = <<>>
    /\ truncated = <<>>
    /\ upsert_calls = <<>>
    /\ upsert_data = <<>>
    /\ ret = "none"
    /\ polls = 0
    /\ sleeps = 0
    /\ index_upserts = <<>>
    /\ error = NoError
    /\ loop_end = "none"
    /\ request = NoRequest
    /\ query_calls = <<>>
    /\ store_result = NoResult
    /\ response = NoResponse
    /\ records = <<>>
    /\ IF program = "parse"
       THEN /\ file_bytes \in Files
            /\ reader_chunk_size \in ChunkSizes
            /\ decoder \in Decoders
       ELSE /\ file_bytes = <<>>
            /\ reader_chunk_size = 1
            /\ decoder = "json"
    /\ read_pos = 0
    /\ buffer = <<>>
    /\ yielded = <<>>
    /\ processed_ids = {}
    /\ crawl_call = NoCall
    /\ crawl_result = Null
    /\ crawl_calls = 0

\* ------------------------------------------------------------- fill_db_web
\* One iteration of the async-for loop whose item is absent.
WebPullAbsent ==
    /\ program = "fill_db_web" /\ pc = "loop"
    /\ Len(history) < MaxPulls
    /\ history' = Append(history, FALSE)
    /\ fails_in_a_row' = fails_in_a_row + 1
    /\ IF BreakerTrips(fails_in_a_row + 1)
       THEN pc' = "final" /\ loop_end' = "breaker"
       ELSE pc' = "loop" /\ UNCHANGED loop_end
    /\ UNCHANGED <<config, embeddings_chunk, embedded, truncated, upsert_calls,
                   storeCall, index_upserts, error, searching,
                   filing, parsing, crawling>>

\* One iteration whose item is present and whose embedding call raises.
WebPullEmbedFails ==
    /\ program = "fill_db_web" /\ pc = "loop"
    /\ Len(history) < MaxPulls
    /\ history' = Append(history, TRUE)
    /\ fails_in_a_row' = WebFailsAfterPresent(fails_in_a_row)
    /\ Abort("get_embeddings", "EmbeddingError", "none")
    /\ UNCHANGED <<config, embeddings_chunk, embedded, truncated, upsert_calls,
                   storeCall, index_upserts, loop_end, searching,
                   filing, parsing, crawling>>

\* One iteration whose item is present and embedded.
WebPullPresent ==
    /\ program = "fill_db_web" /\ pc = "loop"
    /\ Len(history) < MaxPulls
    /\ LET id == Len(history) + 1
           chunk == Append(embeddings_chunk, id)
       IN /\ history' = Append(history, TRUE)
          /\ fails_in_a_row' = WebFailsAfterPresent(fails_in_a_row)
          /\ embedded' = Append(embedded, id)
          /\ IF LimitReached(chunk)
             THEN /\ embeddings_chunk' = Truncate(chunk, ITEMS_LIMIT)
                  /\ truncated' = truncated \o
                        SubSeq(chunk, Len(Truncate(chunk, ITEMS_LIMIT)) + 1, Len(chunk))
                  /\ pc' = "final"
                  /\ loop_end' = "limit"
                  /\ UNCHANGED <<upsert_calls, storeCall>>
             ELSE IF ChunkFull(chunk)
             THEN /\ embeddings_chunk' = chunk
                  /\ CallUpsert(chunk, "loop")
                  /\ UNCHANGED <<truncated, loop_end>>
             ELSE /\ embeddings_chunk' = chunk
                  /\ pc' = "loop"
                  /\ UNCHANGED <<truncated, upsert_calls, storeCall, loop_end>>
    /\ UNCHANGED <<config, index_upserts, error, searching,
                   filing, parsing, crawling>>

\* The source is exhausted: the loop ends.
WebExhausted ==
    /\ program = "fill_db_web" /\ pc = "loop"
    /\ pc' = "final"
    /\ loop_end' = "exhausted"
    /\ UNCHANGED <<config, history, fails_in_a_row, embeddings_chunk, embedded,
                   truncated, upsert_calls, storeCall, index_upserts, error,
                   searching,
                   filing, parsing, crawling>>

\* After the loop: the remaining batch, if any, is upserted.
\* The final flush without its `if embeddings_chunk` guard.
WebFinalFlushAlways ==
    /\ program = "fill_db_web" /\ pc = "final"
    /\ CallUpsert(embeddings_chunk, "done")
    /\ UNCHANGED <<config, history, fails_in_a_row, embeddings_chunk, embedded,
                   truncated, index_upserts, error, loop_end, searching,
                   filing, parsing, crawling>>

WebFinalFlush ==
    /\ program = "fill_db_web" /\ pc = "final"
    /\ IF embeddings_chunk # <<>>
       THEN CallUpsert(embeddings_chunk, "done")
       ELSE pc' = "done" /\ UNCHANGED <<upsert_calls, storeCall>>
    /\ UNCHANGED <<config, history, fails_in_a_row, embeddings_chunk, embedded,
                   truncated, index_upserts, error, loop_end, searching,
                   filing, parsing, crawling>>

\* ------------------------------------------------------------ fill_db_file
\* The kinds of line a file holds, by what JSONDecoder.decode does with them:
\*   article     a JSON object with a "content" field
\*   no_content  JSON that is truthy but has no "content" to read
\*   falsy       JSON that is falsy in Python (null, {}, 0, "")
\*   bad_json    text that is not JSON (json.JSONDecodeError)
\*   bad_utf8    bytes that are not UTF-8 (UnicodeDecodeError)
LineKinds == {"article", "no_content", "falsy", "bad_json", "bad_utf8"}

\* decoder.py:10-14: bytes.decode raises UnicodeDecodeError, which the except
\* clause (json.JSONDecodeError only) does not catch.
DecodeRaises(kind) == kind = "bad_utf8"

\* decoder.py:10-14: the value decode returns when it does not raise.
Decoded(kind) == IF kind = "bad_json" THEN "None" ELSE kind

\* prepare_db.py:116: `not article_data`.
Absent(value) == value \in {"None", "falsy"}

\* A line whose decoded value is absent: counted by the failure counter.
FilePullAbsent ==
    /\ program = "fill_db_file" /\ pc = "loop"
    /\ Len(records) < MaxPulls
    /\ \E kind \in LineKinds :
          /\ ~DecodeRaises(kind) /\ Absent(Decoded(kind))
          /\ records' = Append(records, kind)
    /\ history' = Append(history, FALSE)
    /\ fails_in_a_row' = fails_in_a_row + 1
    /\ IF BreakerTrips(fails_in_a_row + 1)
       THEN pc' = "done" /\ loop_end' = "breaker"
       ELSE pc' = "loop" /\ UNCHANGED loop_end
    /\ UNCHANGED <<config, embeddings_chunk, embedded, truncated, upsert_calls,
                   storeCall, index_upserts, error, searching,
                   parsing, crawling>>

\* A line that decode raises on: the exception leaves parse, provide_data,
\* yield_from_file and fill_db_file; no item is yielded for it.
FileDecodeRaises ==
    /\ program = "fill_db_file" /\ pc = "loop"
    /\ Len(records) < MaxPulls
    /\ \E kind \in LineKinds :
          /\ DecodeRaises(kind)
          /\ records' = Append(records, kind)
    /\ Abort("decode", "UnicodeDecodeError", "none")
    /\ UNCHANGED <<config, history, fails_in_a_row, embeddings_chunk, embedded,
                   truncated, upsert_calls, storeCall, index_upserts, loop_end,
                   searching, parsing, crawling>>

\* A present item without "content": article_data["content"] raises.
FilePullNoContent ==
    /\ program = "fill_db_file" /\ pc = "loop"
    /\ Len(records) < MaxPulls
    /\ \E kind \in LineKinds :
          /\ ~DecodeRaises(kind) /\ Decoded(kind) = "no_content"
          /\ records' = Append(records, kind)
    /\ history' = Append(history, TRUE)
    /\ fails_in_a_row' = FileFailsAfterPresent(fails_in_a_row)
    /\ Abort("fill_db_file", "KeyError", "none")
    /\ UNCHANGED <<config, embeddings_chunk, embedded, truncated, upsert_calls,
                   storeCall, index_upserts, loop_end, searching,
                   parsing, crawling>>

FilePullEmbedFails ==
    /\ program = "fill_db_file" /\ pc = "loop"
    /\ Len(records) < MaxPulls
    /\ \E kind \in LineKinds :
          /\ ~DecodeRaises(kind) /\ Decoded(kind) = "article"
          /\ records' = Append(records, kind)
    /\ history' = Append(history, TRUE)
    /\ fails_in_a_row' = FileFailsAfterPresent(fails_in_a_row)
    /\ Abort("get_embeddings", "EmbeddingError", "none")
    /\ UNCHANGED <<config, embeddings_chunk, embedded, truncated, upsert_calls,
                   storeCall, index_upserts, loop_end, searching,
                   parsing, crawling>>

\* A present item is embedded and upserted on its own.
FilePullPresent ==
    /\ program = "fill_db_file" /\ pc = "loop"
    /\ Len(records) < MaxPulls
    /\ \E kind \in LineKinds :
          /\ ~DecodeRaises(kind) /\ Decoded(kind) = "article"
          /\ records' = Append(records, kind)
    /\ history' = Append(history, TRUE)
    /\ fails_in_a_row' = FileFailsAfterPresent(fails_in_a_row)
    /\ embedded' = Append(embedded, Len(history) + 1)
    /\ CallUpsert(<<Len(history) + 1>>, "loop")
    /\ UNCHANGED <<config, embeddings_chunk, truncated, index_upserts, error,
                   loop_end, searching, parsing, crawling>>

FileExhausted ==
    /\ program = "fill_db_file" /\ pc = "loop"
    /\ pc' = "done"
    /\ loop_end' = "exhausted"
    /\ UNCHANGED <<config, history, fails_in_a_row, embeddings_chunk, embedded,
                   truncated, upsert_calls, storeCall, index_upserts, error,
                   searching, filing, parsing, crawling>>

\* -------------------------------------------------------- PineconeDB.upsert
\* One pass of the readiness loop: describe_index reports ready.
PollReady ==
    /\ pc = "poll" /\ polls < ReadyAttempts
    /\ polls' = polls + 1
    /\ pc' = "index_upsert"
    /\ UNCHANGED <<config, history, fails_in_a_row, embeddings_chunk, embedded,
                   truncated, upsert_calls, upsert_data, ret, sleeps,
                   index_upserts, error, loop_end, searching,
                   filing, parsing, crawling>>

\* Variant of PollNotReady without the for-else: after the last pass the
\* call goes on to the index upsert.
PollNotReadyNoElse ==
    /\ pc = "poll" /\ polls < ReadyAttempts
    /\ polls' = polls + 1
    /\ sleeps' = sleeps + 1
    /\ pc' = IF polls + 1 >= ReadyAttempts THEN "index_upsert" ELSE "poll"
    /\ UNCHANGED <<config, history, fails_in_a_row, embeddings_chunk, embedded,
                   truncated, upsert_calls, upsert_data, ret, index_upserts,
                   error, loop_end, searching,
                   filing, parsing, crawling>>

\* One pass: not ready, sleep; after the last pass the for-else raises.
PollNotReady ==
    /\ pc = "poll" /\ polls < ReadyAttempts
    /\ polls' = polls + 1
    /\ sleeps' = sleeps + 1
    /\ IF polls + 1 >= ReadyAttempts
       THEN Abort("upsert", "PineconeDBError", "none")
       ELSE pc' = "poll" /\ UNCHANGED error
    /\ UNCHANGED <<config, history, fails_in_a_row, embeddings_chunk, embedded,
                   truncated, upsert_calls, upsert_data, ret, index_upserts,
                   loop_end, searching,
                   filing, parsing, crawling>>

\* One pass: describe_index itself raises, outside any try block.
PollRaises ==
    /\ pc = "poll" /\ polls < ReadyAttempts
    /\ polls' = polls + 1
    /\ Abort("upsert", "DescribeIndexError", "none")
    /\ UNCHANGED <<config, history, fails_in_a_row, embeddings_chunk, embedded,
                   truncated, upsert_calls, upsert_data, ret, sleeps,
                   index_upserts, loop_end, searching,
                   filing, parsing, crawling>>

\* The index upsert succeeds; the call returns (its locals are gone) and the
\* caller goes on.
IndexUpsertOk ==
    /\ pc = "index_upsert"
    /\ index_upserts' = Append(index_upserts, upsert_data)
    /\ pc' = ret
    /\ embeddings_chunk' = AfterUpsert(ret, embeddings_chunk)
    /\ upsert_data' = <<>> /\ ret' = "none" /\ polls' = 0 /\ sleeps' = 0
    /\ UNCHANGED <<config, history, fails_in_a_row, embedded, truncated,
                   upsert_calls, error, loop_end, searching,
                   filing, parsing, crawling>>

\* The index upsert raises: wrapped into PineconeDBError from the cause.
IndexUpsertFails ==
    /\ pc = "index_upsert"
    /\ index_upserts' = Append(index_upserts, upsert_data)
    /\ Abort("upsert", "PineconeDBError", "IndexUpsertError")
    /\ UNCHANGED <<config, history, fails_in_a_row, embeddings_chunk, embedded,
                   truncated, upsert_calls, storeCall, loop_end, searching,
                   filing, parsing, crawling>>

\* --------------------------------------------------------- PineconeDB.query
\* What the store's collaborators do during one query: the embedding helper
\* or the index may raise, else the index answers with a result.
MatchKinds ==
    { m \in [form : MatchForms, metadata : {"missing", "none", "dict"},
             complete : BOOLEAN, meta_has_score : BOOLEAN, has_score : BOOLEAN] :
        /\ (m.form = "other") =>
               (m.metadata = "missing" /\ ~m.complete /\ ~m.meta_has_score /\ ~m.has_score)
        /\ (m.form = "object") => (m.metadata # "missing")
        /\ (m.metadata # "dict") => (~m.complete /\ ~m.meta_has_score) }

MatchLists == UNION { [1..n -> MatchKinds] : n \in 0..MaxMatches }

Results ==
    { r \in [shape : ResultShapes, iterable : BOOLEAN, matches : MatchLists] :
        /\ (r.shape \in {"dict_no_matches", "other"}) => (r.iterable /\ r.matches = <<>>)
        /\ (~r.iterable) => (r.matches = <<>>) }

QueryOutcomes ==
    { o \in [failure : {"none", "EmbeddingError", "IndexQueryError"}, result : Results] :
        (o.failure # "none") =>
            (o.result = [shape |-> "other", iterable |-> TRUE, matches |-> <<>>]) }

\* The exception db.query lets out: no try block, the raw exception.
QueryError(o) == [op |-> "query", kind |-> o.failure, cause |-> "none"]

\* ------------------------------------------------------------------ search
\* The relevance score the index gave the i-th match, the score a metadata
\* mapping already carries, and the default of getattr / dict.get.
MatchScore(i) == 100 - (5 * i)
MetaScore(i) == 40 + i
DefaultScore == 0

\* Variant of ValidTopK without the lower bound.
ValidTopKNoLowerBound(k) == k <= TopKMax

\* routes.py:19: the validation of top_k (ge=1, le=10).
ValidTopK(k) == TopKMin <= k /\ k <= TopKMax

\* Variant of Recognized that looks for the attribute only.
RecognizedAttributeOnly(r) == r.shape = "object"

\* routes.py:43-49: is a "matches" collection found on the result?
Recognized(r) == r.shape = "object" \/ r.shape = "dict"

\* routes.py:53-61: does the match yield a metadata and a score?
Handled(m) == m.form = "object" \/ m.form = "dict"

\* routes.py:55, 58: the score read from the match.
ScoreOf(m, i) == IF m.has_score THEN MatchScore(i) ELSE DefaultScore

\* Variant of ArticleScore that always writes the match's score.
ArticleScoreOverwrites(m, i) == ScoreOf(m, i)

\* routes.py:64-65: the score of the article.
ArticleScore(m, i) == IF m.meta_has_score THEN MetaScore(i) ELSE ScoreOf(m, i)

\* routes.py:53-67: the article of the i-th match.
Article(m, i) == [id |-> i, complete |-> m.complete, score |-> ArticleScore(m, i)]

\* Variant of Normalize that collects the articles in reverse.
RECURSIVE NormalizeReversed(_, _)
NormalizeReversed(ms, i) ==
    IF i > Len(ms) THEN [raised |-> "none", articles |-> <<>>]
    ELSE IF ~Handled(ms[i]) THEN NormalizeReversed(ms, i + 1)
    ELSE IF ms[i].metadata = "none" THEN [raised |-> "TypeError", articles |-> <<>>]
    ELSE LET tail == NormalizeReversed(ms, i + 1)
         IN [raised |-> tail.raised,
             articles |-> IF tail.raised = "none"
                          THEN tail.articles \o <<Article(ms[i], i)>> ELSE <<>>]

\* routes.py:51-67: the loop over the matches from position i on.
RECURSIVE Normalize(_, _)
Normalize(ms, i) ==
    IF i > Len(ms) THEN [raised |-> "none", articles |-> <<>>]
    ELSE IF ~Handled(ms[i]) THEN Normalize(ms, i + 1)
    ELSE IF ms[i].metadata = "none" THEN [raised |-> "TypeError", articles |-> <<>>]
    ELSE LET tail == Normalize(ms, i + 1)
         IN [raised |-> tail.raised,
             articles |-> IF tail.raised = "none"
                          THEN <<Article(ms[i], i)>> \o tail.articles ELSE <<>>]

\* Variant of Http500 that reports the failure in the errors list of a 200.
Http500AsErrorsEntry(message) ==
    [status |-> 200, articles |-> <<>>, errors |-> <<message>>, detail |-> <<>>]

\* routes.py:73-76: the HTTPException the handler raises for any exception.
Http500(message) ==
    [status |-> 500, articles |-> <<>>, errors |-> <<>>,
     detail |-> <<"An error occurred during search: ", message>>]

Http200(articles, errors) ==
    [status |-> 200, articles |-> articles, errors |-> errors, detail |-> <<>>]

\* routes.py:39-76: the response built from the store's result.
SearchResponse(r) ==
    IF ~Recognized(r) THEN Http200(<<>>, <<"Unexpected result format">>)
    ELSE IF ~r.iterable THEN Http500("TypeError")
    ELSE LET n == Normalize(r.matches, 1)
         IN IF n.raised # "none" THEN Http500(n.raised)
            ELSE IF \E j \in 1..Len(n.articles) : ~n.articles[j].complete
            THEN Http500("ValidationError")
            ELSE Http200(n.articles, <<>>)

\* Variant of QueryArgs that leaves top_k to db.query's default.
QueryArgsDefaultTopK(q, k) == [text |-> q, top_k |-> 5]

\* routes.py:37: the arguments of the db.query call.
QueryArgs(q, k) == [text |-> q, top_k |-> k]

\* A request whose top_k fails the route's validation: answered 422 before
\* the handler runs.
SearchRejected ==
    /\ program = "search" /\ pc = "request"
    /\ \E q \in Queries, k \in TopKs :
          /\ ~ValidTopK(k)
          /\ request' = [query |-> q, top_k |-> k]
          /\ response' = [status |-> 422, articles |-> <<>>, errors |-> <<>>,
                          detail |-> <<"validation", "top_k">>]
    /\ pc' = "responded"
    /\ UNCHANGED <<config, ingestion, error, query_calls, store_result, filing, parsing, crawling>>

\* An accepted request: one db.query call, then normalisation.
Search ==
    /\ program = "search" /\ pc = "request"
    /\ \E q \in Queries, k \in TopKs, o \in QueryOutcomes :
          /\ ValidTopK(k)
          /\ request' = [query |-> q, top_k |-> k]
          /\ query_calls' = Append(query_calls, QueryArgs(q, k))
          /\ IF o.failure # "none"
             THEN /\ error' = QueryError(o)
                  /\ store_result' = store_result
                  /\ response' = Http500(o.failure)
             ELSE /\ error' = error
                  /\ store_result' = o.result
                  /\ response' = SearchResponse(o.result)
    /\ pc' = "responded"
    /\ UNCHANGED <<config, ingestion, filing, parsing, crawling>>

\* ------------------------------------- CrawlingHelper.fetch_and_process_page
Urls == {"u1", "u2"}

\* An extraction is the list of the page's items; an item is TRUE when it
\* holds all required keys.
Extractions == SeqsUpTo(BOOLEAN, MaxExtracted)

contains_all_required_keys(item) == item

\* The check made for every complete item of the page.
AlreadyProcessed(url, ids) == url \in ids

\* The loop over the extracted items from item i on: ids is processed_ids,
\* complete the complete_items so far.
RECURSIVE ItemsLoop(_, _, _, _, _)
ItemsLoop(url, extracted, i, ids, complete) ==
    IF i > Len(extracted)
    THEN [returned |-> FALSE, ids |-> ids, complete |-> complete]
    ELSE IF ~contains_all_required_keys(extracted[i])
    THEN ItemsLoop(url, extracted, i + 1, ids, complete)
    ELSE IF AlreadyProcessed(url, ids)
    THEN [returned |-> TRUE, ids |-> ids, complete |-> complete]
    ELSE ItemsLoop(url, extracted, i + 1, ids \cup {url},
                   Append(complete, i))

\* The result of one call and the processed_ids it leaves.
FetchAndProcess(url, success, extracted, ids) ==
    IF ~(success /\ extracted # <<>>)
    THEN [result |-> Null, ids |-> ids]
    ELSE LET loop == ItemsLoop(url, extracted, 1, ids, <<>>) IN
         IF loop.returned \/ loop.complete = <<>>
         THEN [result |-> Null, ids |-> loop.ids]
         ELSE [result |-> loop.complete[1], ids |-> loop.ids]

fetch_and_process_page ==
    /\ program = "crawl" /\ pc = "crawl"
    /\ crawl_calls < MaxCalls
    /\ \E url \in Urls, success \in BOOLEAN, extracted \in Extractions :
          LET out == FetchAndProcess(url, success, extracted, processed_ids) IN
          /\ crawl_call' = [url |-> url, seen |-> url \in processed_ids,
                            success |-> success, extracted |-> extracted]
          /\ crawl_result' = out.result
          /\ processed_ids' = out.ids
    /\ crawl_calls' = crawl_calls + 1
    /\ UNCHANGED <<config, pc, ingestion, error, searching, filing, parsing>>

\* -------------------------------------------- FileReader.read, FileParser.parse
\* bytes.decode("utf-8") raises UnicodeDecodeError on a byte that is no UTF-8.
Utf8Invalid(line) == \E i \in 1..Len(line) : line[i] = "ff"

\* json.loads accepts a line of digits (a number) and rejects the empty text.
JsonValid(line) == line # <<>> /\ \A i \in 1..Len(line) : line[i] = "1"

\* The number a line of ones denotes: 1, 11, 111, ...
RECURSIVE JsonLoads(_)
JsonLoads(line) ==
    IF line = <<>> THEN 0
    ELSE 10 * JsonLoads(SubSeq(line, 1, Len(line) - 1)) + 1

\* What parse yields for a line it can decode: JSONDecoder.decode(line), or
\* the text of the line when the parser has no decoder (a text of ones,
\* written as its digits; the empty text as 0).
Item(dec, line) ==
    IF dec = "none" THEN [type |-> "str", value |-> JsonLoads(line)]
    ELSE IF JsonValid(line) THEN [type |-> "int", value |-> JsonLoads(line)]
    ELSE [type |-> "None", value |-> 0]

HasNewline(buf) == \E i \in 1..Len(buf) : buf[i] = "nl"
FirstNewline(buf) == CHOOSE i \in 1..Len(buf) :
                        buf[i] = "nl" /\ \A j \in 1..(i - 1) : buf[j] # "nl"

\* buffer.split(b"\n", 1)
SplitLine(buf) == SubSeq(buf, 1, FirstNewline(buf) - 1)
SplitRest(buf) == SubSeq(buf, FirstNewline(buf) + 1, Len(buf))

\* f.read(chunk_size) returned a chunk: buffer += chunk.
ParseReadChunk ==
    /\ program = "parse" /\ pc = "read"
    /\ read_pos < Len(file_bytes)
    /\ LET end == Min(read_pos + reader_chunk_size, Len(file_bytes)) IN
          /\ buffer' = buffer \o SubSeq(file_bytes, read_pos + 1, end)
          /\ read_pos' = end
    /\ pc' = "split"
    /\ UNCHANGED <<config, ingestion, error, searching, filing, file_bytes,
                   reader_chunk_size, decoder, yielded, crawling>>

\* f.read(chunk_size) returned b"": the reader and the parser end.
ParseEndOfFile ==
    /\ program = "parse" /\ pc = "read"
    /\ read_pos = Len(file_bytes)
    /\ pc' = "parsed"
    /\ UNCHANGED <<config, ingestion, error, searching, filing, parsing,
                   crawling>>

\* while b"\n" in buffer: split off the first line and yield its item.
ParseYield ==
    /\ program = "parse" /\ pc = "split"
    /\ HasNewline(buffer)
    /\ ~Utf8Invalid(SplitLine(buffer))
    /\ yielded' = Append(yielded, Item(decoder, SplitLine(buffer)))
    /\ buffer' = SplitRest(buffer)
    /\ UNCHANGED <<config, pc, ingestion, error, searching, filing, file_bytes,
                   reader_chunk_size, decoder, read_pos, crawling>>

\* The line is no UTF-8: decode raises inside the generator, which ends.
ParseDecodeRaises ==
    /\ program = "parse" /\ pc = "split"
    /\ HasNewline(buffer)
    /\ Utf8Invalid(SplitLine(buffer))
    /\ buffer' = SplitRest(buffer)
    /\ Abort("decode", "UnicodeDecodeError", "none")
    /\ UNCHANGED <<config, ingestion, searching, filing, file_bytes,
                   reader_chunk_size, decoder, read_pos, yielded, crawling>>

\* No newline is left in the buffer: back to the reader.
ParseNeedMore ==
    /\ program = "parse" /\ pc = "split"
    /\ ~HasNewline(buffer)
    /\ pc' = "read"
    /\ UNCHANGED <<config, ingestion, error, searching, filing, parsing,
                   crawling>>

\* -------------------------------------------------------------------- Next
Next ==
    \/ WebPullAbsent
    \/ WebPullEmbedFails
    \/ WebPullPresent
    \/ WebExhausted
    \/ WebFinalFlush
    \/ FilePullAbsent
    \/ FileDecodeRaises
    \/ FilePullNoContent
    \/ FilePullEmbedFails
    \/ FilePullPresent
    \/ FileExhausted
    \/ PollReady
    \/ PollNotReady
    \/ PollRaises
    \/ IndexUpsertOk
    \/ IndexUpsertFails
    \/ SearchRejected
    \/ Search
    \/ fetch_and_process_page
    \/ ParseReadChunk
    \/ ParseEndOfFile
    \/ ParseYield
    \/ ParseDecodeRaises
    \/ ParseNeedMore

Spec == Init /\ [][Next]_vars

\* ------------------------------------------------------- stating the claims
Ingesting == program \in {"fill_db_web", "fill_db_file"}

\* The positions of the present items of a pull history, in order.
RECURSIVE PresentIdsFrom(_, _)
PresentIdsFrom(h, i) ==
    IF i > Len(h) THEN <<>>
    ELSE (IF h[i] THEN <<i>> ELSE <<>>) \o PresentIdsFrom(h, i + 1)
PresentIds(h) == PresentIdsFrom(h, 1)

\* The number of absent items at the end of a pull history.
RECURSIVE TrailingAbsent(_)
TrailingAbsent(h) ==
    IF h = <<>> \/ h[Len(h)] THEN 0
    ELSE 1 + TrailingAbsent(SubSeq(h, 1, Len(h) - 1))

\* The longest run of absent items anywhere in a pull history.
RECURSIVE LongestAbsentRun(_)
LongestAbsentRun(h) ==
    IF h = <<>> THEN 0
    ELSE Max(TrailingAbsent(h), LongestAbsentRun(SubSeq(h, 1, Len(h) - 1)))

\* All the records of a list of batches, in order.
RECURSIVE Flatten(_)
Flatten(calls) ==
    IF calls = <<>> THEN <<>> ELSE Head(calls) \o Flatten(Tail(calls))

CeilDiv(a, b) == (a + b - 1) \div b

\* The effective threshold of the claims: ITEMS_LIMIT when limited, else chunk_size.
Threshold == IF IS_LIMITED THEN ITEMS_LIMIT ELSE chunk_size

\* The run is past its final flush decision: the last db.upsert call, if any, was made.
PastFinalFlush == pc \in {"done", "aborted"} \/ (pc \in {"poll", "index_upsert"} /\ ret = "done")

C2_CounterCountsConsecutiveFailures ==
    (Ingesting /\ error = NoError) =>
        /\ fails_in_a_row = TrailingAbsent(history)
        /\ (loop_end = "breaker") <=> (TrailingAbsent(history) >= max_fails_in_a_row)
        /\ (LongestAbsentRun(history) < max_fails_in_a_row) => (loop_end # "breaker")

\* C3: once the circuit-breaker has tripped in fill_db_web, the history ends
\* with the tripping absent item (nothing after it is pulled), exactly the
\* present items before it were embedded, and the records still buffered go to
\* the store in one final upsert call and no other.
C3_BreakerStopsAndFlushes ==
    (program = "fill_db_web" /\ loop_end = "breaker") =>
        /\ TrailingAbsent(history) = max_fails_in_a_row
        /\ error.op # "get_embeddings"
        /\ embedded = PresentIds(history)
        /\ (pc = "final") => (Flatten(upsert_calls) \o embeddings_chunk = embedded)
        /\ (pc # "final") =>
              /\ PastFinalFlush
              /\ Flatten(upsert_calls) = embedded
              /\ (embeddings_chunk # <<>>) =>
                    /\ upsert_calls # <<>>
                    /\ upsert_calls[Len(upsert_calls)] = embeddings_chunk
              /\ Len(upsert_calls) =
                    (IF IS_LIMITED THEN 0 ELSE Len(embedded) \div chunk_size)
                    + (IF embeddings_chunk # <<>> THEN 1 ELSE 0)

\* The scenario [A, null, null, null, ...]: one upsert call, of A alone.
C3_Witness ==
    /\ program = "fill_db_web" /\ loop_end = "breaker" /\ pc = "done"
    /\ history = <<TRUE, FALSE, FALSE, FALSE>>
    /\ upsert_calls = << <<1>> >> /\ index_upserts = << <<1>> >>

\* C4: in fill_db_web with IS_LIMITED and ITEMS_LIMIT = N >= 1, once the source
\* has yielded N present items (all embedded) the loop has stopped at the N-th
\* of them, nothing else was embedded, and the run makes one upsert call and no
\* other, carrying the first N records in source order.
C4_ItemCapOneFlush ==
    (/\ program = "fill_db_web" /\ IS_LIMITED /\ ITEMS_LIMIT >= 1
     /\ Len(PresentIds(history)) >= ITEMS_LIMIT
     /\ error.op # "get_embeddings") =>
        /\ loop_end = "limit"
        /\ history[Len(history)]
        /\ Len(PresentIds(history)) = ITEMS_LIMIT
        /\ embedded = PresentIds(history)
        /\ truncated = <<>>
        /\ embeddings_chunk = embedded
        /\ (pc = "final") => (upsert_calls = <<>>)
        /\ (pc # "final") => (PastFinalFlush /\ upsert_calls = <<embedded>>)

C4_Witness ==
    /\ program = "fill_db_web" /\ IS_LIMITED /\ ITEMS_LIMIT = 2 /\ pc = "done"
    /\ history = <<TRUE, FALSE, TRUE>>
    /\ upsert_calls = << <<1, 3>> >> /\ index_upserts = << <<1, 3>> >>

\* C5: in fill_db_web without the item cap the batch holds fewer than
\* chunk_size records between iterations, every upsert call made inside the
\* loop carries exactly chunk_size records, and every upsert call carries
\* between 1 and the effective threshold records (ITEMS_LIMIT under the cap).
C5_BatchBounded ==
    (program = "fill_db_web") =>
        /\ (~IS_LIMITED /\ pc = "loop") =>
              /\ Len(embeddings_chunk) < chunk_size
              /\ \A i \in 1..Len(upsert_calls) : Len(upsert_calls[i]) = chunk_size
        /\ (~IS_LIMITED /\ pc \in {"poll", "index_upsert"} /\ ret = "loop") =>
              Len(embeddings_chunk) = chunk_size
        /\ \A i \in 1..Len(upsert_calls) :
              1 <= Len(upsert_calls[i]) /\ Len(upsert_calls[i]) <= Threshold

\* The batch was sent and cleared at chunk_size, and pulling went on.
C5_Witness ==
    /\ program = "fill_db_web" /\ ~IS_LIMITED /\ pc = "loop"
    /\ Len(upsert_calls) = 1 /\ Len(index_upserts) = 1
    /\ Len(history) = chunk_size + 1 /\ embeddings_chunk = <<chunk_size + 1>>

\* C6: when an ingestion run ends without an error, every present item pulled
\* was embedded once, and the embedded records, less those the item-cap
\* truncation dropped, make up the upsert calls in source order, each record in
\* one call, every call having reached the index; a batch left at the end of
\* the web loop is the last call.
C6_NothingLostNothingTwice ==
    (Ingesting /\ pc = "done") =>
        /\ embedded = PresentIds(history)
        /\ Flatten(upsert_calls) \o truncated = embedded
        /\ index_upserts = upsert_calls
        /\ (program = "fill_db_web" /\ embeddings_chunk # <<>>) =>
              /\ upsert_calls # <<>>
              /\ upsert_calls[Len(upsert_calls)] = embeddings_chunk

C6_Witness ==
    /\ program = "fill_db_web" /\ ~IS_LIMITED /\ pc = "done"
    /\ Len(upsert_calls) = 2 /\ embeddings_chunk # <<>>
    /\ Flatten(index_upserts) = PresentIds(history)

\* C7: a db.upsert call polls the readiness at most 10 times with one sleep
\* after each poll that was not ready; it reaches the index upsert only after a
\* poll reported ready, passes it all the records, once; when all 10 polls were
\* not ready it raises PineconeDBError and the index upsert is not called.
C7_BoundedReadinessPoll ==
    /\ polls <= ReadyAttempts
    /\ Len(index_upserts) <= Len(upsert_calls)
    /\ \A i \in 1..Len(index_upserts) : index_upserts[i] = upsert_calls[i]
    /\ (pc = "poll") =>
          /\ polls < ReadyAttempts /\ sleeps = polls
          /\ Len(index_upserts) = Len(upsert_calls) - 1
    /\ (pc = "index_upsert") =>
          /\ polls >= 1 /\ sleeps = polls - 1
          /\ Len(index_upserts) = Len(upsert_calls) - 1
          /\ upsert_data = upsert_calls[Len(upsert_calls)]
    /\ (pc \in {"loop", "final", "done"}) => (Len(index_upserts) = Len(upsert_calls))
    /\ (pc = "aborted" /\ error.op = "upsert" /\ error.cause = "none") =>
          Len(index_upserts) = Len(upsert_calls) - 1
    /\ (pc = "aborted" /\ error.op = "upsert" /\ sleeps = ReadyAttempts) =>
          /\ polls = ReadyAttempts
          /\ error = [op |-> "upsert", kind |-> "PineconeDBError", cause |-> "none"]
    /\ (pc = "aborted" /\ error.cause = "IndexUpsertError") =>
          /\ sleeps = polls - 1
          /\ Len(index_upserts) = Len(upsert_calls)

\* Ten polls, none ready: the store error, and no index upsert.
C7_Witness ==
    /\ pc = "aborted" /\ polls = ReadyAttempts /\ sleeps = ReadyAttempts
    /\ error.kind = "PineconeDBError" /\ upsert_calls # <<>> /\ index_upserts = <<>>

\* C8: every exception that db.upsert or db.query lets out is a
\* PineconeDBError.
C8_StoreErrorsAreWrapped ==
    (error.op \in {"upsert", "query"}) => (error.kind = "PineconeDBError")

\* C9: a failed db.upsert call is not made again and ends the run: from then on
\* nothing is pulled, embedded or upserted (the final flush included), and no
\* record is ever passed to db.upsert twice.
C9_FailedUpsertAborts ==
    [][ /\ (error # NoError) =>
              /\ pc' = pc
              /\ UNCHANGED <<history, embedded, upsert_calls, index_upserts>>
        /\ (Ingesting /\ Len(upsert_calls') > Len(upsert_calls)) =>
              /\ Len(upsert_calls') = Len(upsert_calls) + 1
              /\ \A i \in 1..Len(upsert_calls) : \A j \in 1..Len(upsert_calls[i]) :
                    \A k \in 1..Len(upsert_data') : upsert_calls[i][j] # upsert_data'[k]
      ]_vars

\* An upsert inside the loop failed with records pulled before it.
C9_Witness ==
    /\ program = "fill_db_web" /\ pc = "aborted" /\ error.kind = "PineconeDBError"
    /\ ret = "loop" /\ Len(upsert_calls) = 1 /\ Len(embeddings_chunk) = chunk_size

\* C10: a search response carries errors exactly when the store's result has
\* no "matches" collection, neither as attribute nor as key; the response is
\* then a 200 with no articles and one error entry.
C10_ErrorsOnlyForUnknownShape ==
    /\ (program = "search" /\ pc = "responded" /\ store_result # NoResult) =>
        /\ (store_result.shape \in {"dict_no_matches", "other"}) =>
              /\ response.status = 200
              /\ response.articles = <<>>
              /\ Len(response.errors) = 1
        /\ (store_result.shape \in {"object", "dict"}) => (response.errors = <<>>)
    /\ (program = "search" /\ pc = "responded" /\ store_result = NoResult) =>
        response.errors = <<>>

C10_Witness ==
    /\ program = "search" /\ pc = "responded"
    /\ store_result.shape = "dict_no_matches"
    /\ response.status = 200 /\ Len(response.errors) = 1

\* The search route answered 200 from a result with a "matches" collection.
Answered ==
    /\ program = "search" /\ pc = "responded" /\ response.status = 200
    /\ store_result.shape \in {"object", "dict"}

\* The ids of a list of articles, in order.
ArticleIds(as) == [j \in 1..Len(as) |-> as[j].id]

\* The positions of the matches that are an object or a dict, in order.
RECURSIVE ObjectOrDictFrom(_, _)
ObjectOrDictFrom(ms, i) ==
    IF i > Len(ms) THEN <<>>
    ELSE (IF ms[i].form \in {"object", "dict"} THEN <<i>> ELSE <<>>)
         \o ObjectOrDictFrom(ms, i + 1)

\* C11 (as stated): a 200 answer built from a recognized result has one article
\* per match, the i-th article being the metadata of the i-th match.
C11_OneArticlePerMatch ==
    Answered =>
        /\ Len(response.articles) = Len(store_result.matches)
        /\ \A j \in 1..Len(response.articles) : response.articles[j].id = j

\* C11 (amended): a 200 answer built from a recognized result has one article
\* per match that is an object with a metadata attribute or a dict, in the
\* store's order, each the metadata of its match; matches of any other form
\* are skipped.
C11_ArticlesFollowMatches ==
    Answered =>
        /\ ArticleIds(response.articles) = ObjectOrDictFrom(store_result.matches, 1)
        /\ \A j \in 1..Len(response.articles) :
              /\ store_result.matches[response.articles[j].id].metadata = "dict"
              /\ response.articles[j].complete

C11_Witness ==
    /\ Answered /\ Len(store_result.matches) = 2
    /\ ArticleIds(response.articles) = <<1, 2>>
    /\ store_result.matches[1].form = "object" /\ store_result.matches[2].form = "dict"

\* C12: the score of every returned article is the score its metadata already
\* carried, if it carried one; otherwise the score of its match, or 0 when the
\* match has none.
C12_ScoreInjectedOnlyWhenMissing ==
    Answered =>
        \A j \in 1..Len(response.articles) :
            LET i == response.articles[j].id
                m == store_result.matches[i]
            IN /\ m.meta_has_score => (response.articles[j].score = MetaScore(i))
               /\ (~m.meta_has_score /\ m.has_score) =>
                      (response.articles[j].score = MatchScore(i))
               /\ (~m.meta_has_score /\ ~m.has_score) =>
                      (response.articles[j].score = 0)

\* One article kept its own score although its match had one; another, whose
\* match had no score, got the default.
C12_Witness ==
    /\ Answered /\ Len(response.articles) = 2
    /\ store_result.matches[1].meta_has_score /\ store_result.matches[1].has_score
    /\ response.articles[1].score = MetaScore(1)
    /\ ~store_result.matches[2].meta_has_score /\ ~store_result.matches[2].has_score
    /\ response.articles[2].score = 0

\* C13: db.query is only ever called with 1 <= top_k <= 10, and a request
\* whose top_k is outside that range is answered without any db.query call.
C13_TopKValidatedBeforeStore ==
    (program = "search") =>
        /\ \A c \in 1..Len(query_calls) :
              1 <= query_calls[c].top_k /\ query_calls[c].top_k <= 10
        /\ (pc = "responded" /\ (request.top_k < 1 \/ request.top_k > 10)) =>
              /\ query_calls = <<>>
              /\ store_result = NoResult
              /\ response.status = 422
        /\ (pc = "responded" /\ 1 <= request.top_k /\ request.top_k <= 10) =>
              Len(query_calls) = 1

C13_Witness ==
    /\ program = "search" /\ pc = "responded" /\ request.top_k = 0
    /\ query_calls = <<>> /\ response.status = 422

\* A step after db.query returned raises: the matches cannot be iterated, a
\* metadata is None, or an article lacks a field of the response model.
RaisesAfterQuery(r) ==
    /\ r.shape \in {"object", "dict"}
    /\ \/ ~r.iterable
       \/ \E i \in 1..Len(r.matches) :
             /\ r.matches[i].form \in {"object", "dict"}
             /\ (r.matches[i].metadata = "none" \/ ~r.matches[i].complete)

\* C14: when db.query raises, or a later step of the handler raises, the
\* answer is a 500 whose detail is "An error occurred during search: " followed
\* by the exception's message, with no articles; a 200 is answered only when
\* nothing raised.
C14_ExceptionsBecome500 ==
    (program = "search" /\ pc = "responded" /\ response.status # 422) =>
        /\ (error.op = "query") =>
              /\ response.status = 500
              /\ response.detail = <<"An error occurred during search: ", error.kind>>
              /\ response.articles = <<>>
        /\ (error.op # "query" /\ RaisesAfterQuery(store_result)) =>
              /\ response.status = 500
              /\ response.detail[1] = "An error occurred during search: "
              /\ response.detail[2] \in {"TypeError", "ValidationError"}
              /\ response.articles = <<>>
        /\ (response.status = 200) =>
              (error = NoError /\ ~RaisesAfterQuery(store_result))
        /\ response.status \in {200, 500}

\* The second match's metadata is None: the first article is not returned.
C14_Witness ==
    /\ program = "search" /\ pc = "responded" /\ response.status = 500
    /\ Len(store_result.matches) = 2
    /\ store_result.matches[1].complete /\ store_result.matches[1].form = "object"
    /\ store_result.matches[2].metadata = "none" /\ store_result.matches[2].form = "object"
    /\ response.detail = <<"An error occurred during search: ", "TypeError">>

\* C15: an accepted search request has made exactly one db.query call, with
\* the request's query text and top_k, and no call that writes to the store.
C15_OneQueryCallUnmodified ==
    (program = "search" /\ pc = "responded" /\ response.status # 422) =>
        /\ query_calls = <<[text |-> request.query, top_k |-> request.top_k]>>
        /\ upsert_calls = <<>>
        /\ index_upserts = <<>>

C15_Witness ==
    /\ program = "search" /\ pc = "responded" /\ response.status = 200
    /\ request = [query |-> "ai", top_k |-> 2]
    /\ query_calls = <<[text |-> "ai", top_k |-> 2]>>

\* C16: in fill_db_file every line that cannot be decoded (not JSON, or not
\* UTF-8) reaches the pipeline as an absent item, is never embedded or
\* upserted, and never ends the run with an exception of the decoder.
C16_DecodeFailureIsAbsentRecord ==
    (program = "fill_db_file") =>
        /\ error.op # "decode"
        /\ Len(history) = Len(records)
        /\ \A i \in 1..Len(records) :
              (records[i] \in {"bad_json", "bad_utf8"}) =>
                  /\ ~history[i]
                  /\ \A j \in 1..Len(embedded) : embedded[j] # i

\* The positions of the items of an extraction that hold all required keys.
RECURSIVE CompleteFrom(_, _)
CompleteFrom(extracted, i) ==
    IF i > Len(extracted) THEN <<>>
    ELSE (IF extracted[i] THEN <<i>> ELSE <<>>) \o CompleteFrom(extracted, i + 1)

Called == program = "crawl" /\ crawl_call # NoCall

\* C17: fetch_and_process_page returns null exactly when the fetch failed,
\* the extraction is empty, no extracted item is complete or the URL was in
\* processed_ids when the call started; for a new URL with k >= 1 complete
\* items it returns the first of them and the URL is in processed_ids.
C17_NullExactlyInListedCases ==
    Called =>
        LET complete == CompleteFrom(crawl_call.extracted, 1)
            nullCase == \/ ~crawl_call.success
                        \/ crawl_call.extracted = <<>>
                        \/ complete = <<>>
                        \/ crawl_call.seen
        IN  /\ (crawl_result = Null) <=> nullCase
            /\ ~nullCase => /\ crawl_result = complete[1]
                            /\ crawl_call.url \in processed_ids

\* C18: upsert is never called with an empty batch; a run whose source
\* yielded no present item (an empty source, or absent records only) and a
\* limited fill_db_web run with ITEMS_LIMIT = 0 make no upsert call at all.
C18_NoEmptyUpsert ==
    /\ \A i \in 1..Len(upsert_calls) : upsert_calls[i] # <<>>
    /\ \A i \in 1..Len(index_upserts) : index_upserts[i] # <<>>
    /\ (Ingesting /\ PresentIds(history) = <<>>) => upsert_calls = <<>>
    /\ (program = "fill_db_web" /\ IS_LIMITED /\ ITEMS_LIMIT = 0) =>
           upsert_calls = <<>>

\* A limited run with ITEMS_LIMIT = 0 that pulled a present item, truncated
\* the batch to nothing and finished without an upsert call.
C18_Witness ==
    /\ program = "fill_db_web" /\ IS_LIMITED /\ ITEMS_LIMIT = 0
    /\ pc = "done" /\ loop_end = "limit"
    /\ history = <<FALSE, TRUE>>
    /\ embedded = <<2>> /\ truncated = <<2>>
    /\ upsert_calls = <<>>

\* The newlines of a file and the record each of them terminates.
NewlineCount(bytes) == Cardinality({ i \in 1..Len(bytes) : bytes[i] = "nl" })
NthNewline(bytes, n) ==
    IF n = 0 THEN 0
    ELSE CHOOSE i \in 1..Len(bytes) :
            /\ bytes[i] = "nl"
            /\ Cardinality({ j \in 1..i : bytes[j] = "nl" }) = n
Record(bytes, n) ==
    SubSeq(bytes, NthNewline(bytes, n - 1) + 1, NthNewline(bytes, n) - 1)

ParseEnded == program = "parse" /\ pc \in {"parsed", "aborted"}

\* C19: when parse ends it has yielded exactly one item per newline of the
\* file, in file order, the n-th being the decoding of the bytes before the
\* n-th newline, whatever the chunk size of the reader; the bytes after the
\* last newline are not yielded.
C19_OneItemPerNewline ==
    ParseEnded =>
        /\ Len(yielded) = NewlineCount(file_bytes)
        /\ \A n \in 1..Len(yielded) :
              yielded[n] = Item(decoder, Record(file_bytes, n))

====
